---------------------------- MODULE Spec2Model ----------------------------
(***************************************************************************)
(* AutoDBDoc: the job table of src/autodbdoc/web_app.py (SQLite table      *)
(* `jobs`), its three accessors create_job / update_job_status /           *)
(* get_job_status with their retry loops, the HTTP handlers that call      *)
(* them, and the background worker generate_documentation together with    *)
(* the progress events of DocGenerator.generate_documentation.             *)
(*                                                                         *)
(* Five specifications share the state:                                    *)
(*   Spec          the web application: POST / (index), GET /progress,     *)
(*                 POST /generate and the worker threads it spawns;        *)
(*   SpecApi       the three accessors called directly, with arbitrary     *)
(*                 arguments, by concurrent threads;                       *)
(*   SpecUpdate    sequences of update_job_status calls on created rows;   *)
(*   SpecScenario  create, three updates in a fixed order, then get;       *)
(*   SpecRun       one run of the worker thread on a started job.          *)
(*                                                                         *)
(* Encoding. A Python value that may be None (an optional argument, a      *)
(* nullable column) is a set with at most one element: None is {} and a    *)
(* present value v is {v}. Text built by formatting is a sequence of       *)
(* string pieces, so that f"Error: {e}" differs from e.                    *)
(***************************************************************************)
EXTENDS Integers, Sequences, FiniteSets, TLC

\* ------------------------------------------------------------- bounds
\* job ids the model hands out / lets clients name
MaxJobs == 1
\* request-handling threads (Flask serves requests concurrently)
MaxThreads == 2
\* worker threads ever started
MaxWorkers == 2
\* tables in the documented database
MaxTables == 1
\* seconds the wall clock may advance (CURRENT_TIMESTAMP has 1 s resolution)
MaxClock == 1
\* update_job_status calls recorded per job in SpecUpdate
MaxCalls == 2
\* tables in the database of SpecRun
MaxRunTables == 3

\* ---------------------------------------------------- program constants
\* max_retries of the three accessors
max_retries == 3

\* ------------------------------------------------------- option values
None == {}

Some(v) == {v}

\* the value inside a present option
The(o) == CHOOSE v \in o : TRUE

\* dict.get(key): the entry, or None when the key is missing
DictGet(d, key) == IF key \in DOMAIN d THEN Some(d[key]) ELSE None

JobIds == 1 .. MaxJobs

\* the ids a direct caller of update_job_status / get_job_status may name:
\* the job ids and one id that no create_job call is ever made for
ClientIds == 1 .. (MaxJobs + 1)

Threads == 1 .. MaxThreads

\* ------------------------------------------------------------ the state
VARIABLES
  jobs,     \* the rows of table jobs, in insertion order
  clock,    \* the wall clock, in seconds
  threads,  \* request threads: what each is executing and its local state
  workers,  \* the background threads started by /generate, in start order
  answer,   \* the HTTP answer the step just taken sent, if it sent one
  hist      \* SpecUpdate, SpecScenario: per job, the update calls committed, in order

vars == <<jobs, clock, threads, workers, answer, hist>>

\* --------------------------------------------------------- table jobs
\* SELECT ... WHERE job_id = ?: the positions of the matching rows
RowsOf(table, job_id) == {i \in DOMAIN table : table[i].job_id = job_id}

\* cursor.fetchone() of that SELECT: the first matching row, or None
FetchOne(table, job_id) ==
  IF RowsOf(table, job_id) = {} THEN None
  ELSE Some(table[CHOOSE i \in RowsOf(table, job_id) :
                    \A k \in RowsOf(table, job_id) : i <= k])

\* mutant: request_data is the whole of connection_params' credentials
JsonDumpsWithPassword(connection_params) ==
  << <<"connection_type", DictGet(connection_params, "connection_type")>>,
     <<"host", DictGet(connection_params, "host")>>,
     <<"port", DictGet(connection_params, "port")>>,
     <<"service_name", DictGet(connection_params, "service_name")>>,
     <<"username", DictGet(connection_params, "username")>>,
     <<"password", DictGet(connection_params, "password")>> >>

\* json.dumps(request_data): the five entries in order, password absent
JsonDumps(connection_params) ==
  << <<"connection_type", DictGet(connection_params, "connection_type")>>,
     <<"host", DictGet(connection_params, "host")>>,
     <<"port", DictGet(connection_params, "port")>>,
     <<"service_name", DictGet(connection_params, "service_name")>>,
     <<"username", DictGet(connection_params, "username")>> >>

\* mutant: the INSERT writes the counters of a started job
NewRowStarted(job_id, request_info, connection_params, now) ==
  [ job_id          |-> job_id,
    status          |-> "running",
    message         |-> Some(<<"Initializing...">>),
    current         |-> 0,
    total           |-> 100,
    filename        |-> None,
    created_at      |-> now,
    updated_at      |-> now,
    user_ip         |-> DictGet(request_info, "ip"),
    user_agent      |-> DictGet(request_info, "user_agent"),
    connection_type |-> DictGet(connection_params, "connection_type"),
    host            |-> DictGet(connection_params, "host"),
    port            |-> DictGet(connection_params, "port"),
    service_name    |-> DictGet(connection_params, "service_name"),
    username        |-> DictGet(connection_params, "username"),
    request_data    |-> JsonDumps(connection_params) ]

\* the row create_job's INSERT writes; created_at and updated_at take the
\* column default CURRENT_TIMESTAMP, filename the default NULL
NewRow(job_id, request_info, connection_params, now) ==
  [ job_id          |-> job_id,
    status          |-> "running",
    message         |-> Some(<<"Initializing...">>),
    current         |-> 0,
    total           |-> 0,
    filename        |-> None,
    created_at      |-> now,
    updated_at      |-> now,
    user_ip         |-> DictGet(request_info, "ip"),
    user_agent      |-> DictGet(request_info, "user_agent"),
    connection_type |-> DictGet(connection_params, "connection_type"),
    host            |-> DictGet(connection_params, "host"),
    port            |-> DictGet(connection_params, "port"),
    service_name    |-> DictGet(connection_params, "service_name"),
    username        |-> DictGet(connection_params, "username"),
    request_data    |-> JsonDumps(connection_params) ]

\* mutant: the table declared without PRIMARY KEY, every INSERT accepted
PrimaryKeyOff(table, job_id) == TRUE

\* job_id TEXT PRIMARY KEY: an INSERT of an id the table holds is rejected
PrimaryKeyFree(table, job_id) == RowsOf(table, job_id) = {}

\* mutant: every column is always in the SET clause, so an omitted argument
\* writes NULL (for the counters: 0)
SetClauseNullsOmitted(row, a, now) ==
  [ row EXCEPT
      !.status     = a.status,
      !.updated_at = now,
      !.message    = a.message,
      !.current    = IF a.current # None THEN The(a.current) ELSE 0,
      !.total      = IF a.total # None THEN The(a.total) ELSE 0,
      !.filename   = a.filename ]

\* mutant: 'updated_at = CURRENT_TIMESTAMP' missing from the SET clause
SetClauseKeepStamp(row, a, now) ==
  [ row EXCEPT
      !.status     = a.status,
      !.message    = IF a.message # None THEN a.message ELSE @,
      !.current    = IF a.current # None THEN The(a.current) ELSE @,
      !.total      = IF a.total # None THEN The(a.total) ELSE @,
      !.filename   = IF a.filename # None THEN a.filename ELSE @ ]

\* mutant: the SET clause also resets created_at
SetClauseTouchesCreated(row, a, now) ==
  [ row EXCEPT
      !.status     = a.status,
      !.updated_at = now,
      !.created_at = now,
      !.message    = IF a.message # None THEN a.message ELSE @,
      !.current    = IF a.current # None THEN The(a.current) ELSE @,
      !.total      = IF a.total # None THEN The(a.total) ELSE @,
      !.filename   = IF a.filename # None THEN a.filename ELSE @ ]

\* the SET clause of update_job_status applied to one row
SetClause(row, a, now) ==
  [ row EXCEPT
      !.status     = a.status,
      !.updated_at = now,
      !.message    = IF a.message # None THEN a.message ELSE @,
      !.current    = IF a.current # None THEN The(a.current) ELSE @,
      !.total      = IF a.total # None THEN The(a.total) ELSE @,
      !.filename   = IF a.filename # None THEN a.filename ELSE @ ]

\* mutant: the UPDATE without its WHERE clause
UpdateStmtEveryRow(table, job_id, a, now) ==
  [ i \in DOMAIN table |-> SetClause(table[i], a, now) ]

\* UPDATE jobs SET ... WHERE job_id = ?
UpdateStmt(table, job_id, a, now) ==
  [ i \in DOMAIN table |->
      IF table[i].job_id = job_id THEN SetClause(table[i], a, now)
      ELSE table[i] ]

\* the keyword arguments of one update_job_status call
UpdateArgs(status, message, current, total, filename) ==
  [ status |-> status, message |-> message, current |-> current,
    total |-> total, filename |-> filename ]

\* ------------------------------------------------------ the retry loop
\* which of the max_retries attempts find the store busy
BusyPatterns == [1 .. max_retries -> BOOLEAN]

\* the first attempt of the loop that does not find the store busy
FirstFree(busy, bound) ==
  CHOOSE k \in 1 .. bound : ~busy[k] /\ \A m \in 1 .. (k - 1) : busy[m]

\* mutant: the loop raises one attempt early, at max_retries - 1
RetryLoopGivesUpEarly(busy) ==
  IF \E k \in 1 .. (max_retries - 1) : ~busy[k]
    THEN [ ok |-> TRUE, retry_count |-> FirstFree(busy, max_retries - 1) - 1 ]
    ELSE [ ok |-> FALSE, retry_count |-> max_retries - 1 ]

\* the while loop of update_job_status / get_job_status: the statement runs
\* at the first attempt that is not busy, every busy attempt before it having
\* counted into retry_count; when retry_count reaches max_retries the
\* OperationalError is raised
RetryLoop(busy) ==
  IF \E k \in 1 .. max_retries : ~busy[k]
    THEN [ ok |-> TRUE, retry_count |-> FirstFree(busy, max_retries) - 1 ]
    ELSE [ ok |-> FALSE, retry_count |-> max_retries ]


\* ------------------------------------------------------------- inputs
\* get_request_info(request): the entries create_job reads
RequestInfos == { [ip |-> "10.0.0.7", user_agent |-> "Mozilla"] }

\* connection_params as index() builds them: a basic connection (twice, with
\* different passwords) and a TNS connection, which has no host or port
ConnParamsSet ==
  { [username |-> "scott", password |-> "tiger", host |-> "db1",
     port |-> 1521, service_name |-> "ORCL"],
    [username |-> "scott", password |-> "lion", host |-> "db1",
     port |-> 1521, service_name |-> "ORCL"],
    [tns_name |-> "PROD", tns_config |-> "PROD =", username |-> "scott",
     password |-> "tiger"] }

\* arguments the concurrent callers of SpecApi pass to update_job_status
ApiUpdateArgs ==
  { UpdateArgs("running", Some(<<"table A">>), Some(1), Some(3), None),
    UpdateArgs("completed", None, Some(3), None, Some(<<"report.docx">>)) }

\* arguments of the update sequences of SpecUpdate: every optional argument
\* supplied or omitted
SeqUpdateArgs ==
  { UpdateArgs(s, m, c, tt, f) :
      s \in {"running", "completed"},
      m \in {None, Some(<<"table A">>)},
      c \in {None, Some(1), Some(2)},
      tt \in {None, Some(3)},
      f \in {None, Some(<<"report.docx">>)} }

\* ----------------------------------------------------- request threads
NoArgs == [none |-> TRUE]

NoResp == [kind |-> "none"]

IdleThread ==
  [ kind |-> "idle", pc |-> "idle", job_id |-> 0, args |-> NoArgs,
    retry_count |-> 0, resp |-> NoResp ]

\* a thread takes its next request once the previous one has been answered
Available(t) == threads[t].pc \in {"idle", "done"}

Returned(value) == [kind |-> "returned", value |-> value]

Raised(exc) == [kind |-> "raised", exc |-> exc]

\* a finished direct call: what the caller observed, and the busy attempts
\* the call counted
Finished(kind, job_id, retry_count, outcome) ==
  [ kind |-> kind, pc |-> "done", job_id |-> job_id, args |-> NoArgs,
    retry_count |-> retry_count, resp |-> outcome ]

\* index(): create_job returned -> the success JSON with the job id;
\* create_job raised -> the except branch's error JSON
IndexResponse(job_id, outcome) ==
  IF outcome.kind = "returned"
    THEN [kind |-> "json", handler |-> "index", status |-> "success",
          job_id |-> Some(job_id)]
    ELSE [kind |-> "json", handler |-> "index", status |-> "error",
          job_id |-> None]

\* create_job is over: a direct caller keeps what it observed; index() sends
\* its answer and the request thread is free again
CreateDone(t, retry_count, outcome) ==
  IF threads[t].kind = "index"
    THEN /\ threads' = [threads EXCEPT ![t] = IdleThread]
         /\ answer' = IndexResponse(threads[t].job_id, outcome)
    ELSE /\ threads' = [threads EXCEPT ![t] =
                          Finished("create", @.job_id, retry_count, outcome)]
         /\ answer' = NoResp

\* except sqlite3.OperationalError in create_job: count the attempt, raise at
\* max_retries, else sleep and run the loop body again from the SELECT
CreateBusy(t) ==
  IF threads[t].retry_count + 1 = max_retries
    THEN CreateDone(t, max_retries, Raised("OperationalError"))
    ELSE /\ threads' = [threads EXCEPT ![t].retry_count = @ + 1, ![t].pc = "select"]
         /\ answer' = NoResp

\* create_job, first statement: SELECT job_id FROM jobs WHERE job_id = ?
CreateSelect(t) ==
  /\ threads[t].kind \in {"create", "index"}
  /\ threads[t].pc = "select"
  /\ \E busy \in BOOLEAN :
       IF busy THEN CreateBusy(t)
       ELSE IF FetchOne(jobs, threads[t].job_id) # None
         THEN CreateDone(t, threads[t].retry_count, Returned(None))
         ELSE /\ threads' = [threads EXCEPT ![t].pc = "insert"]
              /\ answer' = NoResp
  /\ UNCHANGED <<jobs, clock, workers, hist>>

\* the table after create_job's INSERT and commit
InsertStmt(table, job_id, request_info, connection_params, now) ==
  Append(table, NewRow(job_id, request_info, connection_params, now))

\* create_job, second statement: INSERT INTO jobs ...; commit. A primary-key
\* clash raises sqlite3.IntegrityError, which the loop does not catch.
CreateInsert(t) ==
  /\ threads[t].kind \in {"create", "index"}
  /\ threads[t].pc = "insert"
  /\ \E busy \in BOOLEAN :
       LET th == threads[t] IN
       IF busy
         THEN /\ CreateBusy(t)
              /\ jobs' = jobs
       ELSE IF PrimaryKeyFree(jobs, th.job_id)
         THEN /\ jobs' = InsertStmt(jobs, th.job_id, th.args.request_info,
                                    th.args.connection_params, clock)
              /\ CreateDone(t, th.retry_count, Returned(None))
         ELSE /\ jobs' = jobs
              /\ CreateDone(t, th.retry_count, Raised("IntegrityError"))
  /\ UNCHANGED <<clock, workers, hist>>

\* a direct call create_job(job_id, request_info, connection_params)
CallCreate(t) ==
  /\ Available(t)
  /\ \E j \in JobIds, ri \in RequestInfos, cp \in ConnParamsSet :
       threads' = [threads EXCEPT ![t] =
         [ kind |-> "create", pc |-> "select", job_id |-> j,
           args |-> [request_info |-> ri, connection_params |-> cp],
           retry_count |-> 0, resp |-> NoResp ]]
  /\ answer' = NoResp
  /\ UNCHANGED <<jobs, clock, workers, hist>>

\* a direct call update_job_status(job_id, status, ...): the UPDATE commits at
\* the first attempt that is not busy, or the call raises
CallUpdate(t) ==
  /\ Available(t)
  /\ \E j \in ClientIds, a \in ApiUpdateArgs, busy \in BusyPatterns :
       LET r == RetryLoop(busy) IN
       /\ threads' = [threads EXCEPT ![t] =
            Finished("update", j, r.retry_count,
                     IF r.ok THEN Returned(None) ELSE Raised("OperationalError"))]
       /\ jobs' = IF r.ok THEN UpdateStmt(jobs, j, a, clock) ELSE jobs
  /\ answer' = NoResp
  /\ UNCHANGED <<clock, workers, hist>>

\* a direct call get_job_status(job_id): dict(row), or None, or it raises
CallGet(t) ==
  /\ Available(t)
  /\ \E j \in ClientIds, busy \in BusyPatterns :
       LET r == RetryLoop(busy) IN
       threads' = [threads EXCEPT ![t] =
         Finished("get", j, r.retry_count,
                  IF r.ok THEN Returned(FetchOne(jobs, j))
                  ELSE Raised("OperationalError"))]
  /\ answer' = NoResp
  /\ UNCHANGED <<jobs, clock, workers, hist>>

\* a second passes
Tick ==
  /\ clock < MaxClock
  /\ clock' = clock + 1
  /\ answer' = NoResp
  /\ UNCHANGED <<jobs, threads, workers, hist>>

\* after init_db(): the table exists and is empty, nothing is running
Init ==
  /\ jobs = <<>>
  /\ clock = 0
  /\ threads = [t \in Threads |-> IdleThread]
  /\ workers = <<>>
  /\ answer = NoResp
  /\ hist = [j \in JobIds |-> <<>>]

ApiNext ==
  \/ \E t \in Threads : CallCreate(t)
  \/ \E t \in Threads : CreateSelect(t)
  \/ \E t \in Threads : CreateInsert(t)
  \/ \E t \in Threads : CallUpdate(t)
  \/ \E t \in Threads : CallGet(t)
  \/ Tick

SpecApi == Init /\ [][ApiNext]_vars

\* ------------------------------------------- sequences of update calls
\* the committed update calls of a job, recorded while its row exists
Record(h, table, job_id, a, now) ==
  IF RowsOf(table, job_id) = {} THEN h
  ELSE [h EXCEPT ![job_id] = Append(@, [args |-> a, at |-> now])]

\* one caller at a time: update_job_status(job_id, status, ...) runs to its
\* commit or raises after max_retries busy attempts
SeqUpdate ==
  \E j \in JobIds, a \in SeqUpdateArgs, busy \in BusyPatterns :
    LET r == RetryLoop(busy) IN
    /\ Len(hist[j]) < MaxCalls
    /\ jobs' = IF r.ok THEN UpdateStmt(jobs, j, a, clock) ELSE jobs
    /\ hist' = IF r.ok THEN Record(hist, jobs, j, a, clock) ELSE hist
    /\ answer' = NoResp
    /\ UNCHANGED <<clock, threads, workers>>

\* the tables create_job leaves behind when called once for some of the ids
CreatedTables ==
  { table \in UNION { [1 .. n -> { NewRow(j, ri, cp, 0) :
                        j \in JobIds, ri \in RequestInfos, cp \in ConnParamsSet }]
                      : n \in 0 .. MaxJobs } :
      \A i, k \in DOMAIN table : table[i].job_id = table[k].job_id => i = k }

UpdInit ==
  /\ jobs \in CreatedTables
  /\ clock = 0
  /\ threads = [t \in Threads |-> IdleThread]
  /\ workers = <<>>
  /\ answer = NoResp
  /\ hist = [j \in JobIds |-> <<>>]

UpdNext == SeqUpdate \/ Tick

SpecUpdate == UpdInit /\ [][UpdNext]_vars

\* ------------------------------------------- the end-to-end scenario
\* the update_job_status calls of the scenario, in order
ScenarioUpdates ==
  << UpdateArgs("running", Some(<<"table A">>), Some(1), Some(3), None),
     UpdateArgs("running", Some(<<"table B">>), Some(2), Some(3), None),
     UpdateArgs("completed", None, Some(3), Some(3), Some(<<"report.docx">>)) >>

\* the next update of the scenario on a created job; a call that raises
\* after max_retries busy attempts is made again
ScenarioUpdate ==
  \E j \in JobIds, busy \in BusyPatterns :
    LET r == RetryLoop(busy)
        a == ScenarioUpdates[Len(hist[j]) + 1]
    IN /\ RowsOf(jobs, j) # {}
       /\ Len(hist[j]) < Len(ScenarioUpdates)
       /\ jobs' = IF r.ok THEN UpdateStmt(jobs, j, a, clock) ELSE jobs
       /\ hist' = IF r.ok THEN Record(hist, jobs, j, a, clock) ELSE hist
       /\ answer' = NoResp
       /\ UNCHANGED <<clock, threads, workers>>

\* get_job_status(job_id) once the scenario's updates are committed
ScenarioGet(t) ==
  /\ Available(t)
  /\ \E j \in JobIds, busy \in BusyPatterns :
       LET r == RetryLoop(busy) IN
       /\ Len(hist[j]) = Len(ScenarioUpdates)
       /\ threads' = [threads EXCEPT ![t] =
            Finished("get", j, r.retry_count,
                     IF r.ok THEN Returned(FetchOne(jobs, j))
                     ELSE Raised("OperationalError"))]
  /\ answer' = NoResp
  /\ UNCHANGED <<jobs, clock, workers, hist>>

ScenarioNext ==
  \/ \E t \in Threads : CallCreate(t)
  \/ \E t \in Threads : CreateSelect(t)
  \/ \E t \in Threads : CreateInsert(t)
  \/ ScenarioUpdate
  \/ \E t \in Threads : ScenarioGet(t)
  \/ Tick

SpecScenario == Init /\ [][ScenarioNext]_vars

\* ------------------------------------------------- the web application
\* the tables of the documented database, as get_tables() lists them
DbTables == [k \in 1 .. MaxTables |-> "T" \o ToString(k)]

\* selected_tables of a /generate request: absent (all tables), a proper
\* prefix of the tables, or a name the database does not hold
SelectedChoices ==
  {None, Some(<<"NOPE">>)}
    \cup {Some(SubSeq(DbTables, 1, k)) : k \in 1 .. (MaxTables - 1)}

\* exception texts, str(e)
LockedMsg == <<"database is locked">>

ConnectMsg == <<"ORA-12541: TNS:no listener">>

QueryMsg == <<"ORA-03113: end-of-file on communication channel">>

SaveMsg == <<"Permission denied">>

MkdirMsg == <<"Read-only file system">>

CleanupMsg == <<"No such file or directory">>

\* ValueError(f"Invalid table names: {', '.join(invalid_tables)}")
InvalidTablesMsg(names) == <<"Invalid table names: ">> \o names

\* f"Error: {str(e)}"
FormatError(e) == <<"Error: ">> \o e

\* f'Processing table {i}/{total_tables}: {table}'
ProcessingMsg(i, n, table) ==
  <<"Processing table ", ToString(i), "/", ToString(n), ": ", table>>

\* f'database_documentation_{timestamp}.docx', timestamp to the second
FileName(now) == <<"database_documentation_", ToString(now), ".docx">>

\* uuid.uuid4(): an id no row and no running submission holds
FreshIds ==
  { j \in JobIds :
      /\ RowsOf(jobs, j) = {}
      /\ \A t \in Threads : ~(threads[t].kind = "index" /\ threads[t].job_id = j) }

\* index(), POST with a valid form: a new job id, then create_job
Index(t) ==
  /\ Available(t)
  /\ FreshIds # {}
  /\ answer' = NoResp
  /\ \E ri \in RequestInfos, cp \in ConnParamsSet :
       threads' = [threads EXCEPT ![t] =
         [ kind |-> "index", pc |-> "select",
           job_id |-> CHOOSE j \in FreshIds : \A k \in FreshIds : j <= k,
           args |-> [request_info |-> ri, connection_params |-> cp],
           retry_count |-> 0, resp |-> NoResp ]]
  /\ UNCHANGED <<jobs, clock, workers, hist>>

\* mutant: get_progress without the `if not job_status` branch
ProgressResponseUnchecked(job_id, outcome) ==
  IF outcome.kind = "raised"
    THEN [kind |-> "http", handler |-> "progress", job_id |-> job_id,
          code |-> 500, body |-> None]
  ELSE [kind |-> "http", handler |-> "progress", job_id |-> job_id,
        code |-> 200, body |-> outcome.value]

\* get_progress(job_id): 404 when get_job_status returns None, the row as
\* JSON otherwise; an exhausted retry loop surfaces as a server error
ProgressResponse(job_id, outcome) ==
  IF outcome.kind = "raised"
    THEN [kind |-> "http", handler |-> "progress", job_id |-> job_id,
          code |-> 500, body |-> None]
  ELSE IF outcome.value = None
    THEN [kind |-> "http", handler |-> "progress", job_id |-> job_id,
          code |-> 404, body |-> None]
  ELSE [kind |-> "http", handler |-> "progress", job_id |-> job_id,
        code |-> 200, body |-> outcome.value]

GetProgress(t) ==
  /\ Available(t)
  /\ \E j \in JobIds, busy \in BusyPatterns :
       LET r == RetryLoop(busy) IN
       answer' = ProgressResponse(j, IF r.ok THEN Returned(FetchOne(jobs, j))
                                     ELSE Raised("OperationalError"))
  /\ UNCHANGED <<jobs, clock, threads, workers, hist>>

\* the JSON answers of start_generation
GenError(job_id, text) ==
  [kind |-> "json", handler |-> "generate", job_id |-> job_id,
   status |-> "error", message |-> text]

GenSuccess(job_id) ==
  [kind |-> "json", handler |-> "generate", job_id |-> job_id,
   status |-> "success", message |-> <<"Documentation generation started">>]

\* /generate requests that got past the argument check and have not answered
GenInFlight == {t \in Threads : threads[t].kind = "generate"}

\* start_generation(): read the request; missing job_id or connection_params
\* is answered at once
StartGeneration(t) ==
  /\ Available(t)
  /\ Len(workers) + Cardinality(GenInFlight) < MaxWorkers
  /\ \E job_id \in {None} \cup {Some(j) : j \in JobIds},
        has_params \in BOOLEAN, sel \in SelectedChoices :
       IF job_id = None \/ ~has_params
         THEN /\ answer' = GenError(job_id, <<"Missing job_id or connection_params">>)
              /\ threads' = threads
         ELSE /\ answer' = NoResp
              /\ threads' = [threads EXCEPT ![t] =
                   [ kind |-> "generate", pc |-> "gen_select", job_id |-> The(job_id),
                     args |-> [selected_tables |-> sel],
                     retry_count |-> 0, resp |-> NoResp ]]
  /\ UNCHANGED <<jobs, clock, workers, hist>>

\* start_generation() answers and the request thread is free again
GenDone(t, resp) ==
  /\ answer' = resp
  /\ threads' = [threads EXCEPT ![t] = IdleThread]

\* mutant: start_generation without the `if not job` branch
GenSelectUnchecked(t) ==
  /\ threads[t].kind = "generate"
  /\ threads[t].pc = "gen_select"
  /\ \E busy \in BOOLEAN :
       LET j == threads[t].job_id IN
       IF busy THEN GenDone(t, GenError(Some(j), FormatError(LockedMsg)))
       ELSE /\ threads' = [threads EXCEPT ![t].pc = "gen_update"]
            /\ answer' = NoResp
  /\ UNCHANGED <<jobs, clock, workers, hist>>

\* start_generation(): SELECT * FROM jobs WHERE job_id = ? (no retry loop)
GenSelect(t) ==
  /\ threads[t].kind = "generate"
  /\ threads[t].pc = "gen_select"
  /\ \E busy \in BOOLEAN :
       LET j == threads[t].job_id IN
       IF busy THEN GenDone(t, GenError(Some(j), FormatError(LockedMsg)))
       ELSE IF FetchOne(jobs, j) = None
         THEN GenDone(t, GenError(Some(j), <<"Invalid job ID">>))
         ELSE /\ threads' = [threads EXCEPT ![t].pc = "gen_update"]
              /\ answer' = NoResp
  /\ UNCHANGED <<jobs, clock, workers, hist>>

\* the update start_generation issues
StartingArgs ==
  UpdateArgs("starting", Some(<<"Starting documentation generation...">>),
             Some(0), Some(100), None)

\* mutant: start_generation starts the thread whether or not its update
\* was committed
GenUpdateThenSpawnAnyway(t) ==
  /\ threads[t].kind = "generate"
  /\ threads[t].pc = "gen_update"
  /\ \E busy \in BusyPatterns :
       LET r == RetryLoop(busy)
           j == threads[t].job_id
       IN /\ jobs' = IF r.ok THEN UpdateStmt(jobs, j, StartingArgs, clock) ELSE jobs
          /\ threads' = [threads EXCEPT ![t].pc = "gen_spawn"]
          /\ answer' = NoResp
  /\ UNCHANGED <<clock, workers, hist>>

\* start_generation(): update_job_status(status='starting', ...)
GenUpdate(t) ==
  /\ threads[t].kind = "generate"
  /\ threads[t].pc = "gen_update"
  /\ \E busy \in BusyPatterns :
       LET r == RetryLoop(busy)
           j == threads[t].job_id
       IN IF r.ok
            THEN /\ jobs' = UpdateStmt(jobs, j, StartingArgs, clock)
                 /\ threads' = [threads EXCEPT ![t].pc = "gen_spawn"]
                 /\ answer' = NoResp
            ELSE /\ jobs' = jobs
                 /\ GenDone(t, GenError(Some(j), FormatError(LockedMsg)))
  /\ UNCHANGED <<clock, workers, hist>>

\* a thread about to run generate_documentation(job_id, ..., selected_tables)
NewWorker(job_id, selected_tables) ==
  [ job_id |-> job_id, pc |-> "connect", selected |-> selected_tables,
    tables |-> <<>>, i |-> 1, exc |-> None, filename |-> None,
    events |-> <<>> ]

\* start_generation(): thread.start(), then the success answer
GenSpawn(t) ==
  /\ threads[t].kind = "generate"
  /\ threads[t].pc = "gen_spawn"
  /\ workers' = Append(workers,
                       NewWorker(threads[t].job_id, threads[t].args.selected_tables))
  /\ GenDone(t, GenSuccess(Some(threads[t].job_id)))
  /\ UNCHANGED <<jobs, clock, hist>>

\* ------------------------------------------- the background worker
Workers == 1 .. MaxWorkers

\* worker w has been started and is about to execute the step named pc
At(w, pc) == w \in DOMAIN workers /\ workers[w].pc = pc

\* the worker moves on to pc
Goto(wk, pc) == [wk EXCEPT !.pc = pc]

\* the thread has ended (pc "done": the function returned, "crashed": an
\* exception left it); its locals are gone
Ended(wk, pc) ==
  [ wk EXCEPT !.pc = pc, !.selected = None, !.tables = <<>>, !.i = 1,
              !.exc = None, !.filename = None, !.events = <<>> ]

\* an exception e is raised: control passes to the except clause at pc; the
\* record of the run's progress events is dropped with the failed run
Raise(wk, e, pc) == [wk EXCEPT !.pc = pc, !.exc = Some(e), !.events = <<>>]

\* one progress event, the arguments of self.progress_callback(...)
Event(message, current, total) ==
  [message |-> message, current |-> current, total |-> total]

\* wk after DocGenerator has emitted one more progress event
Emit(wk, message, current, total) ==
  [wk EXCEPT !.events = Append(@, Event(message, current, total))]

\* one update_job_status call by worker w: it commits and the worker goes on
\* as `ok`, or the retry loop is exhausted, the OperationalError is raised and
\* the worker goes on at the except clause `handler`
WorkerUpdate(w, a, ok, handler) ==
  \E busy \in BusyPatterns :
    LET r == RetryLoop(busy) IN
    /\ jobs' = IF r.ok THEN UpdateStmt(jobs, workers[w].job_id, a, clock) ELSE jobs
    /\ workers' = [workers EXCEPT ![w] =
                     IF r.ok THEN ok ELSE Raise(@, LockedMsg, handler)]
    /\ answer' = NoResp
    /\ UNCHANGED <<clock, threads, hist>>

\* progress_callback(message, current, total): always status 'running'
CallbackArgs(message, current, total) ==
  UpdateArgs("running", Some(message), Some(current), Some(total), None)

\* generate_documentation: db_reader = OracleDBReader(connection_params)
WConnect(w) ==
  /\ At(w, "connect")
  /\ \E fails \in BOOLEAN :
       workers' = [workers EXCEPT ![w] =
         IF fails THEN Raise(@, ConnectMsg, "handler") ELSE Goto(@, "connected")]
  /\ answer' = NoResp
  /\ UNCHANGED <<jobs, clock, threads, hist>>

\* the update generate_documentation issues once connected
ConnectedArgs ==
  UpdateArgs("running", Some(<<"Connected to database">>), Some(5), Some(100), None)

\* generate_documentation: update_job_status('running', 'Connected to
\* database', 5, 100), then os.makedirs(output_dir), which can raise
WConnected(w) ==
  /\ At(w, "connected")
  /\ \E fails \in BOOLEAN :
       WorkerUpdate(w, ConnectedArgs,
                    IF fails THEN Raise(workers[w], MkdirMsg, "handler")
                    ELSE Goto(workers[w], "dg_start"),
                    "handler")

\* DocGenerator.generate_documentation: the first progress event
DGStart(w) ==
  /\ At(w, "dg_start")
  /\ WorkerUpdate(w, CallbackArgs(<<"Starting documentation generation">>, 0, 100),
                  Emit(Goto(workers[w], "dg_tables"),
                       <<"Starting documentation generation">>, 0, 100),
                  "dg_except")

\* the names of selected_tables that are not among all_tables
InvalidTables(selected, all_tables) ==
  SelectSeq(selected, LAMBDA name : \A k \in DOMAIN all_tables : all_tables[k] # name)

\* DocGenerator.generate_documentation: get_tables() returns all_tables (or
\* raises), selected_tables is validated against it, then the title page
DGTablesFrom(w, all_tables) ==
  /\ At(w, "dg_tables")
  /\ \E fails \in BOOLEAN :
       LET wk == workers[w] IN
       workers' = [workers EXCEPT ![w] =
         IF fails THEN Raise(wk, QueryMsg, "dg_except")
         ELSE IF wk.selected = None
           THEN [wk EXCEPT !.pc = "dg_title", !.tables = all_tables]
         ELSE IF InvalidTables(The(wk.selected), all_tables) # <<>>
           THEN Raise(wk, InvalidTablesMsg(InvalidTables(The(wk.selected), all_tables)),
                      "dg_except")
         ELSE [wk EXCEPT !.pc = "dg_title", !.tables = The(wk.selected)]]
  /\ answer' = NoResp
  /\ UNCHANGED <<jobs, clock, threads, hist>>

\* that step against the database of the web application
DGTables(w) == DGTablesFrom(w, DbTables)

\* DocGenerator.generate_documentation: the title-page event
DGTitle(w) ==
  /\ At(w, "dg_title")
  /\ WorkerUpdate(w, CallbackArgs(<<"Created title page">>, 0, 100),
                  Emit(Goto(workers[w], "dg_index"), <<"Created title page">>, 0, 100),
                  "dg_except")

\* DocGenerator.generate_documentation: _create_table_index, which queries
\* each table's description, then the index event
DGIndex(w) ==
  /\ At(w, "dg_index")
  /\ \/ /\ workers[w].tables # <<>>
        /\ workers' = [workers EXCEPT ![w] = Raise(@, QueryMsg, "dg_except")]
        /\ answer' = NoResp
        /\ UNCHANGED <<jobs, clock, threads, hist>>
     \/ WorkerUpdate(w, CallbackArgs(<<"Created table index">>, 0, 100),
                     Emit([workers[w] EXCEPT !.i = 1,
                             !.pc = IF Len(workers[w].tables) >= 1 THEN "dg_loop"
                                    ELSE "dg_saving"],
                          <<"Created table index">>, 0, 100),
                     "dg_except")

\* mutant: the loop counts from 0, enumerate(tables) without the start 1
DGProgressFromZero(w) ==
  /\ At(w, "dg_loop")
  /\ LET wk == workers[w] IN
     WorkerUpdate(w, CallbackArgs(ProcessingMsg(wk.i - 1, Len(wk.tables), wk.tables[wk.i]),
                                  wk.i - 1, Len(wk.tables)),
                  Emit(Goto(wk, "dg_document"),
                       ProcessingMsg(wk.i - 1, Len(wk.tables), wk.tables[wk.i]),
                       wk.i - 1, Len(wk.tables)),
                  "dg_except")

\* DocGenerator.generate_documentation, loop body: the event of table i
DGProgress(w) ==
  /\ At(w, "dg_loop")
  /\ LET wk == workers[w] IN
     WorkerUpdate(w, CallbackArgs(ProcessingMsg(wk.i, Len(wk.tables), wk.tables[wk.i]),
                                  wk.i, Len(wk.tables)),
                  Emit(Goto(wk, "dg_document"),
                       ProcessingMsg(wk.i, Len(wk.tables), wk.tables[wk.i]),
                       wk.i, Len(wk.tables)),
                  "dg_except")

\* DocGenerator.generate_documentation, loop body: _document_table(table)
DGDocument(w) ==
  /\ At(w, "dg_document")
  /\ \E fails \in BOOLEAN :
       workers' = [workers EXCEPT ![w] =
         IF fails THEN Raise(@, QueryMsg, "dg_except")
         ELSE [@ EXCEPT !.i = @ + 1,
                        !.pc = IF workers[w].i < Len(workers[w].tables)
                                 THEN "dg_loop" ELSE "dg_saving"]]
  /\ answer' = NoResp
  /\ UNCHANGED <<jobs, clock, threads, hist>>

\* DocGenerator.generate_documentation: the file name is fixed, then the
\* saving event
DGSaving(w) ==
  /\ At(w, "dg_saving")
  /\ WorkerUpdate(w, CallbackArgs(<<"Saving document...">>, 100, 100),
                  Emit([workers[w] EXCEPT !.pc = "dg_save",
                                          !.filename = Some(FileName(clock))],
                       <<"Saving document...">>, 100, 100),
                  "dg_except")

\* DocGenerator.generate_documentation: self.doc.save(filepath)
DGSave(w) ==
  /\ At(w, "dg_save")
  /\ \E fails \in BOOLEAN :
       workers' = [workers EXCEPT ![w] =
         IF fails THEN Raise(@, SaveMsg, "dg_except") ELSE Goto(@, "dg_completed")]
  /\ answer' = NoResp
  /\ UNCHANGED <<jobs, clock, threads, hist>>

\* DocGenerator.generate_documentation: the last event, then return filename
DGCompleted(w) ==
  /\ At(w, "dg_completed")
  /\ WorkerUpdate(w, CallbackArgs(<<"Documentation completed">>, 100, 100),
                  Emit(Goto(workers[w], "completed"), <<"Documentation completed">>, 100, 100),
                  "dg_except")

\* DocGenerator.generate_documentation, except clause: the error event, then
\* the exception is raised again; if the event itself raises, that exception
\* leaves instead
DGExcept(w) ==
  /\ At(w, "dg_except")
  /\ WorkerUpdate(w, CallbackArgs(FormatError(The(workers[w].exc)), 0, 100),
                  Goto(workers[w], "handler"), "handler")

\* the update generate_documentation issues after the document is written
CompletedArgs(filename) ==
  UpdateArgs("completed", Some(<<"Documentation generated successfully">>),
             Some(100), Some(100), filename)

\* generate_documentation: update_job_status('completed', ..., filename)
WCompleted(w) ==
  /\ At(w, "completed")
  /\ WorkerUpdate(w, CompletedArgs(workers[w].filename),
                  Goto(workers[w], "cleanup"), "handler")

\* generate_documentation: cleanup_old_files(); listdir and getctime are
\* outside its try, so it can raise
WCleanup(w) ==
  /\ At(w, "cleanup")
  /\ \E fails \in BOOLEAN :
       workers' = [workers EXCEPT ![w] =
         IF fails THEN Raise(@, CleanupMsg, "handler") ELSE Ended(@, "done")]
  /\ answer' = NoResp
  /\ UNCHANGED <<jobs, clock, threads, hist>>

\* mutant: the except clause leaves `current` out of its update
ErrorArgsKeepCurrent(e) ==
  UpdateArgs("error", Some(FormatError(e)), None, Some(100), None)

\* the update the except clause of generate_documentation issues
ErrorArgs(e) == UpdateArgs("error", Some(FormatError(e)), Some(0), Some(100), None)

\* generate_documentation, except clause: update_job_status('error', ...); if
\* that call raises, the thread dies with the exception
WHandler(w) ==
  /\ At(w, "handler")
  /\ \E busy \in BusyPatterns :
       LET r == RetryLoop(busy) IN
       /\ jobs' = IF r.ok
                    THEN UpdateStmt(jobs, workers[w].job_id,
                                    ErrorArgs(The(workers[w].exc)), clock)
                    ELSE jobs
       /\ workers' = [workers EXCEPT ![w] =
                        IF r.ok THEN Ended(@, "done") ELSE Ended(@, "crashed")]
  /\ answer' = NoResp
  /\ UNCHANGED <<clock, threads, hist>>

Next ==
  \/ \E t \in Threads : Index(t)
  \/ \E t \in Threads : CreateSelect(t)
  \/ \E t \in Threads : CreateInsert(t)
  \/ \E t \in Threads : GetProgress(t)
  \/ \E t \in Threads : StartGeneration(t)
  \/ \E t \in Threads : GenSelect(t)
  \/ \E t \in Threads : GenUpdate(t)
  \/ \E t \in Threads : GenSpawn(t)
  \/ \E w \in Workers : WConnect(w)
  \/ \E w \in Workers : WConnected(w)
  \/ \E w \in Workers : DGStart(w)
  \/ \E w \in Workers : DGTables(w)
  \/ \E w \in Workers : DGTitle(w)
  \/ \E w \in Workers : DGIndex(w)
  \/ \E w \in Workers : DGProgress(w)
  \/ \E w \in Workers : DGDocument(w)
  \/ \E w \in Workers : DGSaving(w)
  \/ \E w \in Workers : DGSave(w)
  \/ \E w \in Workers : DGCompleted(w)
  \/ \E w \in Workers : DGExcept(w)
  \/ \E w \in Workers : WCompleted(w)
  \/ \E w \in Workers : WCleanup(w)
  \/ \E w \in Workers : WHandler(w)
  \/ Tick

Spec == Init /\ [][Next]_vars

\* ------------------------------------------------ one generation run
\* the tables of the database one run documents
RunTables == [k \in 1 .. MaxRunTables |-> "T" \o ToString(k)]

\* selected_tables of the run: absent, every prefix of the tables (the empty
\* list included), the tables in reverse order, a name the database lacks
RunSelections ==
  {None, Some(<<"NOPE">>)}
    \cup {Some(SubSeq(RunTables, 1, k)) : k \in 0 .. MaxRunTables}
    \cup {Some([k \in 1 .. MaxRunTables |-> RunTables[MaxRunTables + 1 - k]])}

\* get_tables() and the validation, against the database of the run
RunDGTables(w) == DGTablesFrom(w, RunTables)

\* after POST / and POST /generate for one job: its row has been created and
\* set to 'starting', and its worker thread has been started
RunInit ==
  /\ \E j \in JobIds, ri \in RequestInfos, cp \in ConnParamsSet, sel \in RunSelections :
       /\ jobs = UpdateStmt(<<NewRow(j, ri, cp, 0)>>, j, StartingArgs, 0)
       /\ workers = <<NewWorker(j, sel)>>
  /\ clock = 0
  /\ threads = [t \in Threads |-> IdleThread]
  /\ answer = NoResp
  /\ hist = [j \in JobIds |-> <<>>]

RunNext ==
  \/ \E w \in Workers : WConnect(w)
  \/ \E w \in Workers : WConnected(w)
  \/ \E w \in Workers : DGStart(w)
  \/ \E w \in Workers : RunDGTables(w)
  \/ \E w \in Workers : DGTitle(w)
  \/ \E w \in Workers : DGIndex(w)
  \/ \E w \in Workers : DGProgress(w)
  \/ \E w \in Workers : DGDocument(w)
  \/ \E w \in Workers : DGSaving(w)
  \/ \E w \in Workers : DGSave(w)
  \/ \E w \in Workers : DGCompleted(w)
  \/ \E w \in Workers : DGExcept(w)
  \/ \E w \in Workers : WCompleted(w)
  \/ \E w \in Workers : WCleanup(w)
  \/ \E w \in Workers : WHandler(w)
  \/ Tick

SpecRun == RunInit /\ [][RunNext]_vars

\* ============================================================ claims
Terminal == {"completed", "error"}

\* the row of job j (an option: None when the table holds none)
JobRow(j) == FetchOne(jobs, j)

HasRow(j) == JobRow(j) # None

\* the workers started for job j, and those of them that have ended
WorkersOf(j) == {w \in DOMAIN workers : workers[w].job_id = j}

EndedWorkersOf(j) == {w \in WorkersOf(j) : workers[w].pc \in {"done", "crashed"}}

\* the /generate requests under way for job j
TriggersInFlight(j) == {t \in GenInFlight : threads[t].job_id = j}

\* C1: once a job's status is completed or error, no later step changes
\* its row.
C1_TerminalIsAbsorbing ==
  [][\A j \in JobIds :
       (HasRow(j) /\ The(JobRow(j)).status \in Terminal) => JobRow(j)' = JobRow(j)]_vars

\* C2: in every state, every row has a filename if and only if its status
\* is completed.
C2_FilenameIffCompleted ==
  \A i \in DOMAIN jobs : (jobs[i].filename # None) <=> (jobs[i].status = "completed")

\* C3: when the workers started for a job have all ended and no /generate
\* request for it is under way, the job's persisted status is terminal.
C3_EndedWorkerLeavesTerminal ==
  \A j \in JobIds :
    (WorkersOf(j) # {} /\ EndedWorkersOf(j) = WorkersOf(j) /\ TriggersInFlight(j) = {})
      => The(JobRow(j)).status \in Terminal

\* what a step of worker w shows about an exception raised in it: control
\* goes to an except clause, the inner clause hands over to the outer one, and
\* the outer clause's committed update leaves status error, as message the
\* exception's text after `prefix`, and current 0
HandlerStep(w, prefix) ==
  LET wk == workers[w]
      after == workers'[w]
      row == The(FetchOne(jobs', wk.job_id))
  IN /\ (wk.exc = None /\ after.exc # None) => after.pc \in {"dg_except", "handler"}
     /\ (wk.pc = "dg_except" /\ after # wk) => after.pc = "handler"
     /\ (wk.pc = "handler" /\ after.pc = "done")
          => /\ row.status = "error"
             /\ row.message = Some(prefix \o The(wk.exc))
             /\ row.current = 0

SingleTrigger(j) == Cardinality(TriggersInFlight(j)) + Cardinality(WorkersOf(j)) <= 1

\* C5: for a job driven by one /generate trigger and its worker, `current`
\* never decreases from one persisted non-terminal state to the next.
C5_CurrentNeverRegresses ==
  [][\A j \in JobIds :
       ( /\ HasRow(j) /\ SingleTrigger(j) /\ SingleTrigger(j)'
         /\ The(JobRow(j)).status \notin Terminal
         /\ The(JobRow(j))'.status \notin Terminal )
       => The(JobRow(j))'.current >= The(JobRow(j)).current]_vars

\* C6: a step of a create_job call on an id whose row exists leaves the
\* table as it was.
C6_SecondCreateChangesNothing ==
  [][\A t \in Threads :
       ( /\ threads[t].kind = "create" /\ threads[t].pc \in {"select", "insert"}
         /\ threads'[t] # threads[t]
         /\ HasRow(threads[t].job_id) )
       => jobs' = jobs]_vars

\* two create_job calls for one id have both ended, after an update of the
\* row that the first of them inserted
C6_Witness ==
  /\ \A t \in Threads : threads[t].kind = "create" /\ threads[t].pc = "done"
  /\ \A t, u \in Threads : threads[t].job_id = threads[u].job_id
  /\ \E i \in DOMAIN jobs : jobs[i].status = "completed"

\* C7: no create_job call ends by raising the duplicate-key error.
C7_DuplicateCreateNeverRaises ==
  \A t \in Threads :
    (threads[t].kind = "create" /\ threads[t].pc = "done")
      => threads[t].resp # Raised("IntegrityError")

\* C8: the table holds at most one row per job_id.
C8_OneRowPerJob ==
  \A j \in JobIds : Cardinality(RowsOf(jobs, j)) <= 1

\* two create_job calls for one id raced past the existence check, and the
\* table holds that id
C8_Witness ==
  /\ \E t \in Threads :
       /\ threads[t].kind = "create" /\ threads[t].pc = "done"
       /\ threads[t].resp = Raised("IntegrityError")
       /\ RowsOf(jobs, threads[t].job_id) # {}

\* the committed call that a step appended to the history of job j
Appended(j) == hist'[j][Len(hist'[j])]

\* C9: a committed update_job_status call writes status and the current
\* time into updated_at, writes each of message, current, total, filename
\* that it supplies, and leaves every other column as it was.
C9_PartialUpdate ==
  [][\A j \in JobIds :
       Len(hist'[j]) = Len(hist[j]) + 1 =>
         LET a == Appended(j).args
             old == The(JobRow(j))
             new == The(JobRow(j))'
         IN /\ new.status = a.status
            /\ new.updated_at = clock
            /\ new.message = (IF a.message = None THEN old.message ELSE a.message)
            /\ new.current = (IF a.current = None THEN old.current ELSE The(a.current))
            /\ new.total = (IF a.total = None THEN old.total ELSE The(a.total))
            /\ new.filename = (IF a.filename = None THEN old.filename ELSE a.filename)
            /\ \A f \in {"job_id", "created_at", "user_ip", "user_agent",
                         "connection_type", "host", "port", "service_name",
                         "username", "request_data"} : new[f] = old[f]]_vars

\* an update that supplied only `current` has been committed, a second after
\* the row was created, on a row whose message an earlier call had set
C9_Witness ==
  \E j \in JobIds :
    /\ Len(hist[j]) = 2
    /\ hist[j][2].args = UpdateArgs("running", None, Some(2), None, None)
    /\ hist[j][1].args.message # None
    /\ hist[j][2].at = 1
    /\ The(JobRow(j)).message = hist[j][1].args.message

\* the optional arguments a call supplies
Supplied(a) == {f \in {"message", "current", "total", "filename"} : a[f] # None}

\* the calls of h supply pairwise disjoint sets of optional arguments
DisjointCalls(h) ==
  \A m, n \in DOMAIN h : m # n => Supplied(h[m].args) \cap Supplied(h[n].args) = {}

\* the last call of h that supplies f (0 when none does)
LastSupplying(h, f) ==
  IF \E k \in DOMAIN h : f \in Supplied(h[k].args)
    THEN CHOOSE k \in DOMAIN h :
           /\ f \in Supplied(h[k].args)
           /\ \A m \in DOMAIN h : f \in Supplied(h[m].args) => m <= k
    ELSE 0

\* field f after the calls of h on a freshly created row: the value of the
\* last call that supplied it, else the value create_job wrote
Merged(h, f, created) ==
  IF LastSupplying(h, f) = 0 THEN created
  ELSE h[LastSupplying(h, f)].args[f]

\* C10: after a sequence of committed update_job_status calls with
\* pairwise disjoint optional arguments, each column holds the value of the
\* last call that supplied it (status: of the last call), and updated_at,
\* the time of the last call, never decreased along the sequence.
C10_LastWriteWins ==
  \A j \in JobIds :
    (HasRow(j) /\ hist[j] # <<>> /\ DisjointCalls(hist[j])) =>
      LET h == hist[j]
          row == The(JobRow(j))
      IN /\ row.status = h[Len(h)].args.status
         /\ row.message = Merged(h, "message", Some(<<"Initializing...">>))
         /\ Some(row.current) = Merged(h, "current", Some(0))
         /\ Some(row.total) = Merged(h, "total", Some(0))
         /\ row.filename = Merged(h, "filename", None)
         /\ row.updated_at = h[Len(h)].at
         /\ row.created_at <= h[1].at
         /\ \A k \in 1 .. (Len(h) - 1) : h[k].at <= h[k + 1].at

\* two calls with disjoint, non-empty optional arguments were committed in
\* different seconds
C10_Witness ==
  \E j \in JobIds :
    /\ HasRow(j) /\ Len(hist[j]) = 2 /\ DisjointCalls(hist[j])
    /\ Supplied(hist[j][1].args) # {} /\ Supplied(hist[j][2].args) # {}
    /\ hist[j][1].at < hist[j][2].at

\* a step in which thread t ends a call of the given accessor
Finishes(t, kind) ==
  /\ threads'[t] # threads[t]
  /\ threads'[t].kind = kind
  /\ threads'[t].pc = "done"

\* C11: a call whose first two attempts found the store busy and whose third
\* attempt the store served returns normally, its effect applied once:
\* update_job_status has run its UPDATE once, get_job_status returns the row
\* (or None), create_job leaves exactly one row for the id (the one it
\* inserted, or the one its SELECT found).
C11_ThirdAttemptSucceeds ==
  [][\A t \in Threads :
       LET j == threads'[t].job_id
           third == threads'[t].retry_count = max_retries - 1
       IN /\ (Finishes(t, "update") /\ third)
               => /\ threads'[t].resp = Returned(None)
                  /\ \E a \in ApiUpdateArgs : jobs' = UpdateStmt(jobs, j, a, clock)
          /\ (Finishes(t, "get") /\ third)
               => /\ threads'[t].resp = Returned(FetchOne(jobs, j))
                  /\ jobs' = jobs
          /\ ( /\ Finishes(t, "create") /\ third
               /\ (threads[t].pc = "select" \/ PrimaryKeyFree(jobs, j)) )
               => /\ threads'[t].resp = Returned(None)
                  /\ Cardinality(RowsOf(jobs', j)) = 1
                  /\ threads[t].pc = "select" => jobs' = jobs
                  /\ threads[t].pc = "insert" =>
                       jobs' = InsertStmt(jobs, j, threads[t].args.request_info,
                                          threads[t].args.connection_params, clock)]_vars

\* a create_job call and a get_job_status call have both returned at their
\* third attempt, and the get call returned the row
C11_Witness ==
  \E t, u \in Threads :
    /\ threads[t] = Finished("create", threads[t].job_id, max_retries - 1, Returned(None))
    /\ threads[u].kind = "get" /\ threads[u].pc = "done"
    /\ threads[u].retry_count = max_retries - 1
    /\ threads[u].resp = Returned(JobRow(threads[t].job_id))
    /\ HasRow(threads[t].job_id)

\* C12: a call raises the busy error exactly when it has counted
\* max_retries (3) busy attempts, and such a call leaves the table as it was.
C12_ExhaustedRetriesRaise ==
  [][\A t \in Threads : \A kind \in {"create", "update", "get"} :
       Finishes(t, kind) =>
         /\ (threads'[t].resp = Raised("OperationalError"))
              <=> (threads'[t].retry_count = max_retries)
         /\ threads'[t].retry_count = max_retries => jobs' = jobs]_vars

\* a create_job call and an update_job_status call have both raised after
\* three busy attempts, the update on a row that is as create_job wrote it
C12_Witness ==
  \E t, u \in Threads :
    /\ threads[t] = Finished("create", threads[t].job_id, max_retries,
                             Raised("OperationalError"))
    /\ threads[u] = Finished("update", threads[u].job_id, max_retries,
                             Raised("OperationalError"))
    /\ HasRow(threads[u].job_id)
    /\ The(JobRow(threads[u].job_id)).message = Some(<<"Initializing...">>)

\* what a get_job_status call on an id without a row gives, when the call
\* may have counted up to `busy_attempts` busy attempts: None, which
\* get_progress answers with 404 and no job status
AbsentGet(t, busy_attempts) ==
  ( /\ Finishes(t, "get")
    /\ ~HasRow(threads'[t].job_id)
    /\ threads'[t].retry_count <= busy_attempts )
  => /\ threads'[t].resp = Returned(None)
     /\ ProgressResponse(threads'[t].job_id, threads'[t].resp).code = 404
     /\ ProgressResponse(threads'[t].job_id, threads'[t].resp).body = None

\* C13 (amended): get_job_status on a job_id that has no row returns None,
\* and the progress poll answers "not found", unless the store was busy at
\* all three attempts.
C13_AbsentGetReturnsNone ==
  [][\A t \in Threads : AbsentGet(t, max_retries - 1)]_vars

\* C13 as stated: ... returns None and never raises.
C13_AbsentGetNeverRaises ==
  [][\A t \in Threads : AbsentGet(t, max_retries)]_vars

\* get_job_status, after two busy attempts, returned None for an id that has
\* no row
C13_Witness ==
  \E t \in Threads :
    /\ threads[t] = Finished("get", threads[t].job_id, max_retries - 1, Returned(None))
    /\ ~HasRow(threads[t].job_id)

\* C14: after create(j) and the three updates of the scenario, in order,
\* get(j) returns status completed, current 3, total 3, filename
\* "report.docx" and message "table B".
C14_ScenarioResult ==
  \A t \in Threads :
    (threads[t].kind = "get" /\ threads[t].resp.kind = "returned")
      => /\ threads[t].resp.value # None
         /\ LET job == The(threads[t].resp.value)
            IN /\ job.job_id = threads[t].job_id
               /\ job.status = "completed"
               /\ job.current = 3
               /\ job.total = 3
               /\ job.filename = Some(<<"report.docx">>)
               /\ job.message = Some(<<"table B">>)

\* get(j) has returned the row, the scenario having run across a second
C14_Witness ==
  \E t \in Threads :
    /\ threads[t].kind = "get" /\ threads[t].resp.kind = "returned"
    /\ Len(hist[threads[t].job_id]) = Len(ScenarioUpdates)
    /\ The(threads[t].resp.value).created_at < The(threads[t].resp.value).updated_at

\* C15: the step by which create_job returns for a job_id that had no row
\* appends exactly one row, with status running, current 0, total 0, message
\* "Initializing..." and filename null; that row is what a get_job_status
\* call finds next.
C15_CreateInsertsInitialRow ==
  [][\A t \in Threads :
       ( /\ Finishes(t, "create")
         /\ threads'[t].resp = Returned(None)
         /\ ~HasRow(threads[t].job_id) )
       => /\ Len(jobs') = Len(jobs) + 1
          /\ \A i \in DOMAIN jobs : jobs'[i] = jobs[i]
          /\ RowsOf(jobs', threads[t].job_id) = {Len(jobs')}
          /\ LET job == The(FetchOne(jobs', threads[t].job_id))
             IN /\ job.status = "running"
                /\ job.current = 0
                /\ job.total = 0
                /\ job.message = Some(<<"Initializing...">>)
                /\ job.filename = None]_vars

\* create_job has returned and a get_job_status call right after it returned
\* the row as inserted
C15_Witness ==
  \E t, u \in Threads :
    /\ threads[t].kind = "create" /\ threads[t].resp = Returned(None)
    /\ threads[u].kind = "get" /\ threads[u].job_id = threads[t].job_id
    /\ threads[u].resp = Returned(JobRow(threads[t].job_id))
    /\ HasRow(threads[t].job_id)
    /\ The(JobRow(threads[t].job_id)).status = "running"
    /\ The(JobRow(threads[t].job_id)).total = 0
    /\ The(JobRow(threads[t].job_id)).message = Some(<<"Initializing...">>)

\* connection parameters that differ at most in the password entry
SamePublic(cp1, cp2) ==
  /\ DOMAIN cp1 = DOMAIN cp2
  /\ \A k \in DOMAIN cp1 \ {"password"} : cp1[k] = cp2[k]

Passwords == {cp.password : cp \in ConnParamsSet}

\* the pieces of a text column (none when it is NULL)
Pieces(text) == IF text = None THEN {} ELSE {The(text)[k] : k \in DOMAIN The(text)}

\* every string a row holds, the values serialized in request_data included
\* (port is a number)
RowStrings(row) ==
  {row.status} \cup Pieces(row.message) \cup Pieces(row.filename)
    \cup row.user_ip \cup row.user_agent \cup row.connection_type \cup row.host
    \cup row.service_name \cup row.username
    \cup UNION {row.request_data[k][2] :
                  k \in {m \in DOMAIN row.request_data : row.request_data[m][1] # "port"}}

\* C16: no row ever holds a password, in any column or under any key of
\* request_data, after its creation or after any later update; and the
\* table create_job leaves is the one it would have left had the password
\* been any other.
C16_PasswordNeverStored ==
  [][/\ \A i \in DOMAIN jobs' :
          /\ RowStrings(jobs'[i]) \cap Passwords = {}
          /\ \A k \in DOMAIN jobs'[i].request_data :
               jobs'[i].request_data[k][1] # "password"
     /\ \A t \in Threads :
          ( /\ threads[t].kind \in {"create", "index"}
            /\ threads[t].pc = "insert"
            /\ threads'[t] # threads[t]
            /\ Len(jobs') = Len(jobs) + 1 )
          => \A cp \in ConnParamsSet :
               SamePublic(threads[t].args.connection_params, cp)
                 => jobs' = InsertStmt(jobs, threads[t].job_id,
                                       threads[t].args.request_info, cp, clock)]_vars

\* a job submitted with host, port, service name, user name and password has
\* run to completion: its row was created and later updated
C16_Witness ==
  \E j \in JobIds :
    /\ HasRow(j)
    /\ The(JobRow(j)).status = "completed"
    /\ The(JobRow(j)).host = Some("db1")
    /\ \E cp \in ConnParamsSet :
         cp.password = "lion" /\ The(JobRow(j)).request_data = JsonDumps(cp)

\* the columns written at creation only
AuditFields ==
  {"job_id", "created_at", "user_ip", "user_agent", "connection_type", "host",
   "port", "service_name", "username", "request_data"}

\* C17: once a row is in the table, no step removes it or changes its job_id,
\* created_at, user_ip, user_agent, connection_type, host, port,
\* service_name, username or request_data.
C17_AuditFieldsImmutable ==
  [][\A i \in DOMAIN jobs :
       /\ i \in DOMAIN jobs'
       /\ \A f \in AuditFields : jobs'[i][f] = jobs[i][f]]_vars

\* a job triggered twice, whose row was last updated, by a worker's error
\* handler, a second after it was created
C17_Witness ==
  \E j \in JobIds :
    /\ HasRow(j)
    /\ Cardinality(WorkersOf(j)) = 2
    /\ The(JobRow(j)).status = "error"
    /\ The(JobRow(j)).created_at < The(JobRow(j)).updated_at

\* C18: once a job's total is non-zero, no step changes it.
C18_TotalFixedOnceKnown ==
  [][\A j \in JobIds :
       (HasRow(j) /\ The(JobRow(j)).total # 0)
         => The(JobRow(j))'.total = The(JobRow(j)).total]_vars

\* the place of a status in starting -> running -> {completed, error}
StatusRank(status) ==
  CASE status = "starting" -> 1
    [] status = "running" -> 2
    [] OTHER -> 3

\* C19: for a job driven by at most one /generate trigger, no step moves
\* the status backwards along starting -> running -> {completed, error}.
C19_StatusMovesForward ==
  [][\A j \in JobIds :
       (HasRow(j) /\ SingleTrigger(j)')
         => StatusRank(The(JobRow(j))'.status) >= StatusRank(The(JobRow(j)).status)]_vars

\* the progress events of a complete run over the given tables
ExpectedEvents(tables) ==
  << Event(<<"Starting documentation generation">>, 0, 100),
     Event(<<"Created title page">>, 0, 100),
     Event(<<"Created table index">>, 0, 100) >>
  \o [i \in 1 .. Len(tables) |->
        Event(ProcessingMsg(i, Len(tables), tables[i]), i, Len(tables))]
  \o << Event(<<"Saving document...">>, 100, 100),
        Event(<<"Documentation completed">>, 100, 100) >>

\* C20: a run over n tables emits, after the start, title-page and index
\* events and before the saving and completed events, exactly n per-table
\* events, in the order of the tables, the i-th with current i and total n;
\* when table i is about to be documented the last event emitted is the
\* i-th per-table event.
C20_PerTableEvents ==
  \A w \in DOMAIN workers :
    LET wk == workers[w]
        n == Len(wk.tables)
        expected == ExpectedEvents(wk.tables)
    IN /\ wk.pc = "dg_loop" => wk.events = SubSeq(expected, 1, 3 + wk.i - 1)
       /\ wk.pc = "dg_document" => wk.events = SubSeq(expected, 1, 3 + wk.i)
       /\ wk.pc = "dg_saving" => wk.events = SubSeq(expected, 1, 3 + n)
       /\ wk.pc \in {"completed", "cleanup"} =>
            /\ wk.events = expected
            /\ Len(wk.events) = n + 5

\* DocGenerator has returned from a run over all the tables, selected in
\* reverse order
C20_Witness ==
  \E w \in DOMAIN workers :
    /\ workers[w].pc = "cleanup"
    /\ Len(workers[w].tables) = MaxRunTables
    /\ workers[w].tables[1] = RunTables[MaxRunTables]
    /\ workers[w].events[4].current = 1
    /\ workers[w].events[3 + MaxRunTables].total = MaxRunTables

\* C21: a /generate request without a job_id, or whose job_id has no row
\* when the handler looks it up, is answered with an error and is over; the
\* step starts no worker and leaves the table as it was.
C21_InvalidGenerateRejected ==
  [][/\ (answer'.kind = "json" /\ answer'.handler = "generate" /\ answer'.job_id = None)
          => /\ answer'.status = "error"
             /\ workers' = workers
             /\ jobs' = jobs
             /\ threads' = threads
     /\ \A t \in Threads :
          ( /\ threads[t].kind = "generate" /\ threads[t].pc = "gen_select"
            /\ threads'[t] # threads[t]
            /\ ~HasRow(threads[t].job_id) )
          => /\ answer'.kind = "json" /\ answer'.handler = "generate"
             /\ answer'.status = "error"
             /\ threads'[t] = IdleThread
             /\ workers' = workers
             /\ jobs' = jobs]_vars

\* a /generate request for a job_id without a row has just been answered
\* "Invalid job ID", while another /generate request is under way
C21_Witness ==
  \E j \in JobIds :
    /\ answer.kind = "json" /\ answer.handler = "generate"
    /\ answer = GenError(Some(j), <<"Invalid job ID">>)
    /\ ~HasRow(j)
    /\ workers = <<>>
    /\ GenInFlight # {}

\* C22: for every job, at most one worker is ever started.
C22_OneWorkerPerJob ==
  \A j \in JobIds : Cardinality(WorkersOf(j)) <= 1

\* C23: for a job driven by at most one /generate trigger, no step changes
\* the status of its row once it is completed; in particular the sweep
\* after the completed update raises nothing that would.
C23_CompletedSurvivesSweep ==
  [][\A j \in JobIds :
       (HasRow(j) /\ The(JobRow(j)).status = "completed" /\ SingleTrigger(j)')
         => The(JobRow(j))'.status = "completed"]_vars

\* C25: the step by which a /generate handler passes its update has
\* committed status starting, current 0, total 100 and started no worker;
\* a handler whose update raises answers with an error, starts no worker and
\* is over; and a worker is started only by a handler that has passed its
\* update, in a step that writes nothing to the table.
C25_StartingBeforeWorker ==
  [][/\ \A t \in Threads :
          (threads[t].kind = "generate" /\ threads[t].pc = "gen_update"
             /\ threads'[t] # threads[t])
          => /\ workers' = workers
             /\ IF threads'[t].pc = "gen_spawn"
                  THEN /\ jobs' = UpdateStmt(jobs, threads[t].job_id, StartingArgs, clock)
                       /\ The(JobRow(threads[t].job_id))'.status = "starting"
                       /\ The(JobRow(threads[t].job_id))'.current = 0
                       /\ The(JobRow(threads[t].job_id))'.total = 100
                  ELSE /\ jobs' = jobs
                       /\ threads'[t] = IdleThread
                       /\ answer'.kind = "json" /\ answer'.status = "error"
     /\ \A t \in Threads :
          (threads'[t].pc = "gen_spawn" /\ threads[t].pc # "gen_spawn")
            => threads[t].pc = "gen_update"
     /\ workers' # workers /\ Len(workers') = Len(workers) + 1
          => /\ jobs' = jobs
             /\ \E t \in Threads :
                  /\ threads[t].kind = "generate" /\ threads[t].pc = "gen_spawn"
                  /\ threads'[t] = IdleThread
                  /\ workers' = Append(workers, NewWorker(threads[t].job_id,
                                                          threads[t].args.selected_tables))]_vars

\* a handler has just started its worker: the row holds the handler's
\* starting update and the worker has not taken a step
C25_Witness ==
  \E j \in JobIds :
    /\ answer.kind = "json" /\ answer.handler = "generate" /\ answer.status = "success"
    /\ HasRow(j)
    /\ The(JobRow(j)).status = "starting"
    /\ The(JobRow(j)).total = 100
    /\ \E w \in WorkersOf(j) : workers[w].pc = "connect"

\* what an update_job_status call on an id without a row does, when the
\* call may have counted up to `busy_attempts` busy attempts: it returns,
\* the table is as it was, and the id still has no row for get_job_status
\* to find
AbsentUpdate(t, busy_attempts) ==
  ( /\ Finishes(t, "update")
    /\ ~HasRow(threads'[t].job_id)
    /\ threads'[t].retry_count <= busy_attempts )
  => /\ threads'[t].resp = Returned(None)
     /\ jobs' = jobs
     /\ FetchOne(jobs', threads'[t].job_id) = None

\* C24 (amended): update_job_status on a job_id that has no row returns
\* normally, creates no row and leaves every row unchanged, and
\* get_job_status still finds no row for the id, unless the store was busy
\* at all three attempts.
C24_AbsentUpdateIsNoOp ==
  [][\A t \in Threads : AbsentUpdate(t, max_retries - 1)]_vars

\* C24 as stated: ... returns normally without raising ...
C24_AbsentUpdateNeverRaises ==
  [][\A t \in Threads : AbsentUpdate(t, max_retries)]_vars

\* update_job_status has returned for an id without a row and
\* get_job_status after it returned None, beside the row of another job,
\* which an earlier update had completed
C24_Witness ==
  \E t, u \in Threads :
    /\ threads[t].kind = "update" /\ threads[t].resp = Returned(None)
    /\ threads[u].kind = "get" /\ threads[u].resp = Returned(None)
    /\ threads[u].job_id = threads[t].job_id
    /\ ~HasRow(threads[t].job_id)
    /\ \E i \in DOMAIN jobs : jobs[i].status = "completed"

=============================================================================
